---- MODULE Spec2Model ----
(***************************************************************************)
(* A model of AbstractTypeProcessor (src/src/index.jsx): the schema-driven *)
(* asynchronous traversal of a value against a type map.                   *)
(*                                                                         *)
(* JavaScript values are tagged records.  Every async method is modelled   *)
(* twice from the same source lines: as a recursive operator that computes *)
(* the completion (return or throw) of a call that runs alone, and as the  *)
(* steps of a call stack, one action per stretch of code between awaits,   *)
(* so that calls can interleave and hooks can be observed.                 *)
(***************************************************************************)
EXTENDS Integers, Sequences, FiniteSets, TLC

(***************************************************************************)
(* Bounds of the model.                                                    *)
(***************************************************************************)
MaxListLen == 2

(***************************************************************************)
(* JavaScript values.                                                      *)
(***************************************************************************)
Undefined == [k |-> "undefined"]

Null == [k |-> "null"]

Str(s) == [k |-> "string", s |-> s]

Bool(b) == [k |-> "boolean", b |-> b]

\* An object literal: own enumerable keys in insertion order and their values.
Obj(keys, f) == [k |-> "object", keys |-> keys, f |-> f]

EmptyObj == Obj(<<>>, <<>>)

Arr(e) == [k |-> "array", e |-> e]

Fn(n) == [k |-> "function", n |-> n]

\* new TypeError(message)
TypeError(message) == [k |-> "error", message |-> message]

\* A TypeError carrying a map (its `fields` or its `indices` property).
AggregateError(message, sub) == [k |-> "error", message |-> message, sub |-> sub]

ERROR_MESSAGES ==
  [NON_EXISTENT_TYPE |-> "NON_EXISTENT_TYPE",
   NON_EXISTENT_FIELD |-> "NON_EXISTENT_FIELD",
   MISSING_FIELDS_FOR_TYPE |-> "MISSING_FIELDS_FOR_TYPE",
   ITEM_ERROR |-> "ITEM_ERROR",
   VALUE_LIST_ERROR |-> "VALUE_LIST_ERROR",
   INVALID_VALUE_LIST |-> "INVALID_VALUE_LIST",
   INVALID_ITEM |-> "INVALID_ITEM"]

\* `value instanceof Object`: objects, arrays, functions and errors.
InstanceOfObject(value) == value.k \in {"object", "array", "function", "error"}

\* `value instanceof Array`
InstanceOfArray(value) == value.k = "array"

\* A variant of valueExists that takes null for a value that exists.
valueExists_UndefinedOnly(value) == value.k # "undefined"

\* static valueExists (value)
valueExists(value) == ~(value.k = "undefined" \/ value.k = "null")

\* Truthiness of a flag (`if (primitive)`, `if (multiple)`).
Truthy(value) ==
  CASE value.k = "undefined" -> FALSE
    [] value.k = "null" -> FALSE
    [] value.k = "boolean" -> value.b
    [] value.k = "string" -> value.s # ""
    [] OTHER -> TRUE

\* The string a value is turned into when it is used as a property key.
PropertyKey(key) ==
  CASE key.k = "string" -> key.s
    [] key.k = "undefined" -> "undefined"
    [] key.k = "null" -> "null"
    [] key.k = "boolean" -> IF key.b THEN "true" ELSE "false"
    [] OTHER -> "[object]"

\* Members every object inherits from Object.prototype (a representative).
InheritedKeys == {"toString"}

\* The own enumerable string keys of a value.
OwnKeys(obj) == IF obj.k = "object" THEN DOMAIN obj.f ELSE {}

\* `obj[key]` for obj instanceof Object: the own property, else the property
\* inherited through the prototype chain, else undefined.
Get(obj, key) ==
  LET name == PropertyKey(key)
  IN  IF name \in OwnKeys(obj) THEN obj.f[name]
      ELSE IF name \in InheritedKeys THEN Fn(name)
      ELSE Undefined

\* Object.keys(obj)
ObjectKeys(obj) == IF obj.k = "object" THEN obj.keys ELSE <<>>

\* A variant of Put that sets no key for an undefined value.
Put_SkipUndefined(obj, name, value) ==
  IF value.k = "undefined" THEN obj
  ELSE Obj(IF name \in DOMAIN obj.f THEN obj.keys ELSE Append(obj.keys, name),
           [x \in DOMAIN obj.f \cup {name} |-> IF x = name THEN value ELSE obj.f[x]])

\* `obj[name] = value` on an object literal.
Put(obj, name, value) ==
  Obj(IF name \in DOMAIN obj.f THEN obj.keys ELSE Append(obj.keys, name),
      [x \in DOMAIN obj.f \cup {name} |-> IF x = name THEN value ELSE obj.f[x]])

\* `map[key] = error` on the error map of a loop (a TLA+ function).
PutError(map, key, error) ==
  [x \in DOMAIN map \cup {key} |-> IF x = key THEN error ELSE map[x]]

(***************************************************************************)
(* Completions of a call: what it returns or what it throws.               *)
(***************************************************************************)
Return(v) == [t |-> "return", v |-> v]

Throw(e) == [t |-> "throw", v |-> e]

None == [t |-> "none"]

Returned(c) == c.t = "return"

Threw(c) == c.t = "throw"

ThrewMessage(c, message) == c.t = "throw" /\ c.v.k = "error" /\ c.v.message = message

(***************************************************************************)
(* The lookup methods.  tm is this.typeMap.                                *)
(***************************************************************************)
getTypeDefinition(tm, typeName) ==
  IF InstanceOfObject(tm) /\ InstanceOfObject(Get(tm, typeName))
  THEN Return(Get(tm, typeName))
  ELSE Throw(TypeError(ERROR_MESSAGES.NON_EXISTENT_TYPE))

\* A variant of getFieldList that takes a type without a fields map for a type
\* that declares no field.
getFieldList_NoFieldsAsNone(tm, typeName) ==
  LET typeDefinition == getTypeDefinition(tm, typeName)
  IN  IF Threw(typeDefinition) THEN typeDefinition
      ELSE LET fields == Get(typeDefinition.v, Str("fields"))
           IN  IF InstanceOfObject(fields)
               THEN Return(ObjectKeys(fields))
               ELSE Return(<<>>)

getFieldList(tm, typeName) ==
  LET typeDefinition == getTypeDefinition(tm, typeName)
  IN  IF Threw(typeDefinition) THEN typeDefinition
      ELSE LET fields == Get(typeDefinition.v, Str("fields"))
           IN  IF InstanceOfObject(fields)
               THEN Return(ObjectKeys(fields))
               ELSE Throw(TypeError(ERROR_MESSAGES.MISSING_FIELDS_FOR_TYPE))

getFieldDescriptor(tm, typeName, fieldName) ==
  LET typeDefinition == getTypeDefinition(tm, typeName)
  IN  IF Threw(typeDefinition) THEN typeDefinition
      ELSE LET fields == Get(typeDefinition.v, Str("fields"))
           IN  IF InstanceOfObject(fields) /\ InstanceOfObject(Get(fields, fieldName))
               THEN Return(Get(fields, fieldName))
               ELSE Throw(TypeError(ERROR_MESSAGES.NON_EXISTENT_FIELD))

\* The object literal has an object literal of its own under the key.
HasOwnObject(obj, key) ==
  /\ obj.k = "object"
  /\ PropertyKey(key) \in DOMAIN obj.f
  /\ obj.f[PropertyKey(key)].k = "object"

\* `const { features = {} } = x`: the default applies to undefined only.
FeaturesOf(x) ==
  IF Get(x, Str("features")).k = "undefined" THEN EmptyObj ELSE Get(x, Str("features"))

getTypeFeature(tm, typeName, featureName) ==
  LET typeDefinition == getTypeDefinition(tm, typeName)
  IN  IF Threw(typeDefinition) THEN typeDefinition
      ELSE Return(Get(FeaturesOf(typeDefinition.v), featureName))

getFieldFeature(tm, typeName, fieldName, featureName) ==
  LET fieldDescriptor == getFieldDescriptor(tm, typeName, fieldName)
  IN  IF Threw(fieldDescriptor) THEN fieldDescriptor
      ELSE Return(Get(FeaturesOf(fieldDescriptor.v), featureName))

(***************************************************************************)
(* The extension hooks.  "identity" is the default implementation of the   *)
(* class; "override" is a subclass whose hooks transform some values and   *)
(* reject others (a hook fails by throwing).  A hook is reentrant: its     *)
(* outcome depends on its arguments only.                                  *)
(***************************************************************************)
HookKinds == {"identity", "override"}

HOOK_FAILED == "HOOK_FAILED"

IsStr(value, s) == value.k = "string" /\ value.s = s

processPrimitiveValue(h, value, typeName) ==
  IF h = "identity" THEN Return(value)
  ELSE IF IsStr(value, "bad") THEN Throw(TypeError(HOOK_FAILED))
  ELSE IF IsStr(value, "a") THEN Return(Str("A"))
  ELSE Return(value)

processRemoteValue(h, value, typeName) ==
  IF h = "identity" THEN Return(value)
  ELSE IF IsStr(value, "bad") THEN Throw(TypeError(HOOK_FAILED))
  ELSE IF IsStr(value, "a") THEN Return(Obj(<<"id">>, [id |-> Str("a")]))
  ELSE Return(value)

(***************************************************************************)
(* The traversal methods as recursive operators: the completion of a call  *)
(* that runs alone.  List indices are JavaScript's (from 0).               *)
(***************************************************************************)
RECURSIVE processValue(_, _, _, _)
RECURSIVE processValueList(_, _, _, _)
RECURSIVE ValueListLoop(_, _, _, _, _, _, _)
RECURSIVE processFieldValue(_, _, _, _, _)
RECURSIVE processItem(_, _, _, _)
RECURSIVE ItemLoop(_, _, _, _, _, _, _, _)

processValue(tm, h, value, typeName) ==
  LET typeDefinition == getTypeDefinition(tm, typeName)
  IN  IF Threw(typeDefinition) THEN typeDefinition
      ELSE IF Truthy(Get(typeDefinition.v, Str("primitive")))
      THEN processPrimitiveValue(h, value, typeName)
      ELSE IF Truthy(Get(typeDefinition.v, Str("remote")))
      THEN processRemoteValue(h, value, typeName)
      ELSE processItem(tm, h, value, typeName)

\* The for loop of processValueList from index i on, and what follows it.
ValueListLoop(tm, h, valueList, typeName, i, newList, errorIndices) ==
  IF i < Len(valueList.e)
  THEN LET r == processValue(tm, h, valueList.e[i + 1], typeName)
       IN  IF Returned(r)
           THEN ValueListLoop(tm, h, valueList, typeName, i + 1,
                              Append(newList, r.v), errorIndices)
           ELSE ValueListLoop(tm, h, valueList, typeName, i + 1,
                              newList, PutError(errorIndices, i, r.v))
  ELSE IF DOMAIN errorIndices # {}
  THEN Throw(AggregateError(ERROR_MESSAGES.VALUE_LIST_ERROR, errorIndices))
  ELSE Return(Arr(newList))

processValueList(tm, h, valueList, typeName) ==
  IF InstanceOfArray(valueList)
  THEN ValueListLoop(tm, h, valueList, typeName, 0, <<>>, <<>>)
  ELSE IF ~valueExists(valueList) THEN Return(valueList)
  ELSE Throw(TypeError(ERROR_MESSAGES.INVALID_VALUE_LIST))

processFieldValue(tm, h, value, typeName, fieldName) ==
  LET fieldDescriptor == getFieldDescriptor(tm, typeName, fieldName)
  IN  IF Threw(fieldDescriptor) THEN fieldDescriptor
      ELSE IF Truthy(Get(fieldDescriptor.v, Str("multiple")))
      THEN processValueList(tm, h, value, Get(fieldDescriptor.v, Str("type")))
      ELSE processValue(tm, h, value, Get(fieldDescriptor.v, Str("type")))

\* The for loop of processItem from index i on, and what follows it.
ItemLoop(tm, h, item, typeName, fieldList, i, newItem, errorFields) ==
  IF i < Len(fieldList)
  THEN LET fieldName == fieldList[i + 1]
           r == processFieldValue(tm, h, Get(item, Str(fieldName)), typeName,
                                  Str(fieldName))
       IN  IF Returned(r)
           THEN ItemLoop(tm, h, item, typeName, fieldList, i + 1,
                         Put(newItem, fieldName, r.v), errorFields)
           ELSE ItemLoop(tm, h, item, typeName, fieldList, i + 1,
                         newItem, PutError(errorFields, fieldName, r.v))
  ELSE IF DOMAIN errorFields # {}
  THEN Throw(AggregateError(ERROR_MESSAGES.ITEM_ERROR, errorFields))
  ELSE Return(newItem)

processItem(tm, h, item, typeName) ==
  IF InstanceOfObject(item)
  THEN LET fieldList == getFieldList(tm, typeName)
       IN  IF Threw(fieldList) THEN fieldList
           ELSE ItemLoop(tm, h, item, typeName, fieldList.v, 0, EmptyObj, <<>>)
  ELSE IF ~valueExists(item) THEN Return(item)
  ELSE Throw(TypeError(ERROR_MESSAGES.INVALID_ITEM))

(***************************************************************************)
(* Type maps a processor is constructed with.                              *)
(***************************************************************************)
Feature1 == Obj(<<"configParam1">>, [configParam1 |-> Bool(TRUE)])

\* A field descriptor { type } or { type, multiple: true }.
Field(type) == Obj(<<"type">>, [type |-> Str(type)])

FieldMultiple(type) ==
  Obj(<<"type", "multiple">>, [type |-> Str(type), multiple |-> Bool(TRUE)])

StringType ==
  Obj(<<"name", "primitive", "features">>,
      [name |-> Str("String"), primitive |-> Bool(TRUE),
       features |-> Obj(<<"feature1">>, [feature1 |-> Feature1])])

AddressType == Obj(<<"remote">>, [remote |-> Bool(TRUE)])

\* Both flags set.
BothType ==
  Obj(<<"primitive", "remote">>, [primitive |-> Bool(TRUE), remote |-> Bool(TRUE)])

ContactType ==
  Obj(<<"fields">>,
      [fields |->
         Obj(<<"firstName", "address", "tags">>,
             [firstName |->
                Obj(<<"type", "features">>,
                    [type |-> Str("String"),
                     features |-> Obj(<<"feature1">>, [feature1 |-> Feature1])]),
              address |-> Field("Address"),
              tags |-> FieldMultiple("String")])])

\* A composite type that refers to itself and to lists of records.
TeamType ==
  Obj(<<"fields">>,
      [fields |->
         Obj(<<"lead", "members", "parent">>,
             [lead |-> Field("Contact"),
              members |-> FieldMultiple("Contact"),
              parent |-> Field("Team")])])

\* Fields whose descriptors are malformed: a type that is not in the map
\* (single and multiple), no type at all, and a descriptor that is no object.
BrokenType ==
  Obj(<<"fields">>,
      [fields |->
         Obj(<<"ghost", "ghosts", "untyped", "junk">>,
             [ghost |-> Field("Missing"),
              ghosts |-> FieldMultiple("Missing"),
              untyped |-> EmptyObj,
              junk |-> Str("junk")])])

\* A composite type without a fields map, and one with an empty fields map.
EmptyType == Obj(<<"name">>, [name |-> Str("Empty")])

VoidType == Obj(<<"fields">>, [fields |-> EmptyObj])

TypeMapMain ==
  Obj(<<"String", "Address", "Both", "Contact", "Team", "Broken", "Empty",
        "Void", "Junk", "Legacy">>,
      [String |-> StringType, Address |-> AddressType, Both |-> BothType,
       Contact |-> ContactType, Team |-> TeamType, Broken |-> BrokenType,
       Empty |-> EmptyType, Void |-> VoidType,
       Junk |-> Str("junk"), Legacy |-> Fn("legacy")])

\* The type map of the tests and of the scenarios of the specification.
TypeMapTest ==
  Obj(<<"String", "Address", "Contact">>,
      [String |-> Obj(<<"primitive">>, [primitive |-> Bool(TRUE)]),
       Address |-> AddressType,
       Contact |->
         Obj(<<"fields">>,
             [fields |-> Obj(<<"firstName", "address">>,
                             [firstName |-> Field("String"),
                              address |-> Field("Address")])])])

\* config.typeMap: a map, the default {}, or something that is no object.
TypeMaps == {TypeMapMain, TypeMapTest, EmptyObj, Null}

(***************************************************************************)
(* Arguments of the calls.                                                 *)
(***************************************************************************)
TypeNames ==
  {Str(n) : n \in {"String", "Address", "Both", "Contact", "Team", "Broken",
                   "Empty", "Void", "Junk", "Legacy", "Missing", "toString"}}
  \cup {Undefined}

FieldNames ==
  {Str(n) : n \in {"firstName", "tags", "ghost", "junk", "nope", "toString"}}

FeatureNames == {Str("feature1"), Str("feature2")}

Scalars == {Str("a"), Str("bad")}

AddressRecord == Obj(<<"line1">>, [line1 |-> Str("a")])

Contact1 == Obj(<<"firstName">>, [firstName |-> Str("a")])

Contact2 ==
  Obj(<<"firstName", "extra">>, [firstName |-> Str("a"), extra |-> Str("a")])

Contact3 ==
  Obj(<<"tags", "firstName", "address">>,
      [tags |-> Arr(<<Str("a"), Str("a")>>), firstName |-> Str("a"),
       address |-> AddressRecord])

Contact4 ==
  Obj(<<"firstName", "address", "tags">>,
      [firstName |-> Str("bad"), address |-> Str("a"),
       tags |-> Arr(<<Str("a"), Str("bad")>>)])

Contact5 ==
  Obj(<<"firstName", "address", "tags">>,
      [firstName |-> Str("a"), address |-> Str("bad"), tags |-> Str("a")])

Contact6 ==
  Obj(<<"firstName", "address", "tags">>,
      [firstName |-> Null, address |-> Undefined, tags |-> Null])

ContactRecords ==
  {EmptyObj, Contact1, Contact2, Contact3, Contact4, Contact5, Contact6}

Team1 ==
  Obj(<<"lead", "members", "parent">>,
      [lead |-> Contact3, members |-> Arr(<<Contact3, Contact6>>), parent |-> Null])

\* A conforming record with undeclared keys at two levels.
Contact7 ==
  Obj(<<"firstName", "address", "tags", "extra">>,
      [firstName |-> Str("a"), address |-> AddressRecord,
       tags |-> Arr(<<>>), extra |-> Str("a")])

Team2 ==
  Obj(<<"lead", "members", "parent", "extra">>,
      [lead |-> Contact7, members |-> Arr(<<>>),
       parent |-> Obj(<<"lead", "members", "parent">>,
                      [lead |-> Contact6, members |-> Arr(<<Contact7>>),
                       parent |-> Undefined]),
       extra |-> Str("a")])

Team3 ==
  Obj(<<"lead", "members">>,
      [lead |-> Str("a"), members |-> Arr(<<Contact4, Null, Str("a"), Contact1>>)])

TeamRecords == {Team1, Team2, Team3}

\* A record with a value under every field of the Broken type.
Broken1 ==
  Obj(<<"ghost", "ghosts", "untyped", "junk">>,
      [ghost |-> Str("a"), ghosts |-> Arr(<<Str("a")>>),
       untyped |-> Str("a"), junk |-> Str("a")])

Broken2 ==
  Obj(<<"ghost", "ghosts">>, [ghost |-> Contact1, ghosts |-> Arr(<<>>)])

BrokenRecords == {Broken1, Broken2}

\* A record of which a field fails under the overriding hooks only.
ContactBad == Obj(<<"firstName">>, [firstName |-> Str("bad")])

\* The elements the lists are made of.
Elements == {Str("a"), Str("bad"), ContactBad}

\* A list with an absent element.
SparseList == Arr(<<Undefined, Str("bad")>>)

SeqsUpTo(S, n) == UNION {[1..m -> S] : m \in 0..n}

Lists == {Arr(e) : e \in SeqsUpTo(Elements, MaxListLen)}

Values ==
  {Undefined, Null} \cup Scalars \cup ContactRecords \cup TeamRecords
  \cup BrokenRecords \cup Lists \cup {SparseList}

(***************************************************************************)
(* The processor and the calls made on it.                                 *)
(***************************************************************************)
NumCalls == 2

Calls == 1..NumCalls

VARIABLES
  typeMap,   \* this.typeMap
  hooks,     \* which hooks the instance has: the defaults or a subclass's
  input,     \* per call: the method called and its arguments
  stack,     \* per call: the activation records of its pending async methods
  ret,       \* per call: the completion handed to the method on top
  hookLog,   \* per call: the hook invocations made so far
  failLog,   \* history, per call: the failures raised so far, each at its path
  overlap    \* history: the calls that took a step while another was pending

vars == <<typeMap, hooks, input, stack, ret, hookLog, failLog, overlap>>

NoInput ==
  [entry |-> "none", value |-> Undefined, typeName |-> Undefined,
   fieldName |-> Undefined, featureName |-> Undefined]

\* The activation record of an async method at its first statement.
Frame(fn, value, typeName, fieldName) ==
  [fn |-> fn, value |-> value, typeName |-> typeName, fieldName |-> fieldName,
   pc |-> "start", i |-> 0, fieldList |-> <<>>, out |-> Undefined, errs |-> <<>>]

Idle(c) == input[c].entry = "none"

Running(c) == stack[c] # <<>>

Done(c) == input[c].entry # "none" /\ stack[c] = <<>>

Top(c) == stack[c][Len(stack[c])]

Below(c) == SubSeq(stack[c], 1, Len(stack[c]) - 1)

\* The method on top of call c is fn, at pc.
At(c, fn, pc) == Running(c) /\ Top(c).fn = fn /\ Top(c).pc = pc

Init ==
  /\ typeMap \in TypeMaps
  /\ hooks \in HookKinds
  /\ input = [c \in Calls |-> NoInput]
  /\ stack = [c \in Calls |-> <<>>]
  /\ ret = [c \in Calls |-> None]
  /\ hookLog = [c \in Calls |-> <<>>]
  /\ failLog = [c \in Calls |-> {}]
  /\ overlap = {}

(***************************************************************************)
(* Calls of the lookup methods: they await nothing but each other.         *)
(***************************************************************************)
Lookup(c, in, completion) ==
  /\ Idle(c)
  /\ input' = [input EXCEPT ![c] = in]
  /\ ret' = [ret EXCEPT ![c] = completion]
  /\ hookLog' = [hookLog EXCEPT ![c] = <<>>]
  /\ failLog' = [failLog EXCEPT ![c] = {}]
  /\ overlap' = overlap \ {c}
  /\ UNCHANGED <<typeMap, hooks, stack>>

CallGetTypeDefinition(c) ==
  \E typeName \in TypeNames :
    Lookup(c, [NoInput EXCEPT !.entry = "getTypeDefinition", !.typeName = typeName],
           getTypeDefinition(typeMap, typeName))

CallGetFieldList(c) ==
  \E typeName \in TypeNames :
    Lookup(c, [NoInput EXCEPT !.entry = "getFieldList", !.typeName = typeName],
           getFieldList(typeMap, typeName))

CallGetFieldDescriptor(c) ==
  \E typeName \in TypeNames, fieldName \in FieldNames :
    Lookup(c, [NoInput EXCEPT !.entry = "getFieldDescriptor",
                              !.typeName = typeName, !.fieldName = fieldName],
           getFieldDescriptor(typeMap, typeName, fieldName))

\* A variant of the call of getTypeFeature that stores the default features
\* object in the type definition it looked up.
CallGetTypeFeature_StoresDefault(c) ==
  \E typeName \in TypeNames, featureName \in FeatureNames :
    /\ Idle(c)
    /\ input' = [input EXCEPT ![c] =
                   [NoInput EXCEPT !.entry = "getTypeFeature",
                                   !.typeName = typeName,
                                   !.featureName = featureName]]
    /\ ret' = [ret EXCEPT ![c] = getTypeFeature(typeMap, typeName, featureName)]
    /\ hookLog' = [hookLog EXCEPT ![c] = <<>>]
    /\ failLog' = [failLog EXCEPT ![c] = {}]
    /\ overlap' = overlap \ {c}
    /\ typeMap' =
         IF HasOwnObject(typeMap, typeName)
         THEN Put(typeMap, PropertyKey(typeName),
                  Put(typeMap.f[PropertyKey(typeName)], "features",
                      FeaturesOf(typeMap.f[PropertyKey(typeName)])))
         ELSE typeMap
    /\ UNCHANGED <<hooks, stack>>

CallGetTypeFeature(c) ==
  \E typeName \in TypeNames, featureName \in FeatureNames :
    Lookup(c, [NoInput EXCEPT !.entry = "getTypeFeature",
                              !.typeName = typeName, !.featureName = featureName],
           getTypeFeature(typeMap, typeName, featureName))

CallGetFieldFeature(c) ==
  \E typeName \in TypeNames, fieldName \in FieldNames, featureName \in FeatureNames :
    Lookup(c, [NoInput EXCEPT !.entry = "getFieldFeature", !.typeName = typeName,
                              !.fieldName = fieldName, !.featureName = featureName],
           getFieldFeature(typeMap, typeName, fieldName, featureName))

(***************************************************************************)
(* Calls of the traversal methods, step by step.                           *)
(***************************************************************************)
TraversalEntries == {"processValue", "processValueList", "processItem"}

\* A caller invokes entry(value, typeName) on the instance.
Begin(c, entry, value, typeName) ==
  /\ Idle(c)
  /\ input' = [input EXCEPT ![c] = [NoInput EXCEPT !.entry = entry,
                                                   !.value = value,
                                                   !.typeName = typeName]]
  /\ stack' = [stack EXCEPT ![c] = <<Frame(entry, value, typeName, Undefined)>>]
  /\ ret' = [ret EXCEPT ![c] = None]
  /\ hookLog' = [hookLog EXCEPT ![c] = <<>>]
  /\ failLog' = [failLog EXCEPT ![c] = {}]
  /\ overlap' = overlap \ {c}
  /\ UNCHANGED <<typeMap, hooks>>

CallTraversal(c) ==
  \E entry \in TraversalEntries, value \in Values, typeName \in TypeNames :
    Begin(c, entry, value, typeName)

\* Call c takes a step: it is recorded whether another call is pending.
Overlap(c) ==
  overlap' = IF \E d \in Calls \ {c} : Running(d) THEN overlap \cup {c} ELSE overlap

\* The position of a list element in a path of field names and indices.
Index(i) == [k |-> "index", i |-> i]

\* The path from the root value of a call to the value the method on top of
\* the frames works on: the field, or the index, each pending loop is at.
PathOf(frames) ==
  LET loops == SelectSeq(frames, LAMBDA f :
                 f.fn \in {"processItem", "processValueList"} /\ f.pc = "await")
  IN  [n \in 1..Len(loops) |->
         IF loops[n].fn = "processItem"
         THEN Str(loops[n].fieldList[loops[n].i + 1])
         ELSE Index(loops[n].i)]

\* The completion is a failure raised by the method on top itself: an error
\* that is neither the one handed to it by its callee nor an aggregate of the
\* errors its loop caught.
Originates(c, completion) ==
  /\ Threw(completion)
  /\ completion # ret[c]
  /\ "sub" \notin DOMAIN completion.v

\* The method on top settles with a completion: its record is popped.
Settle(c, completion) ==
  /\ stack' = [stack EXCEPT ![c] = Below(c)]
  /\ ret' = [ret EXCEPT ![c] = completion]
  /\ failLog' = [failLog EXCEPT ![c] =
                   IF Originates(c, completion)
                   THEN @ \cup {<<PathOf(stack[c]), completion.v>>}
                   ELSE @]
  /\ Overlap(c)

\* The method on top, with f its record as it is now, awaits a call of fn: it
\* waits at "await" under the callee.
AwaitFrom(c, f, fn, value, typeName, fieldName) ==
  /\ stack' = [stack EXCEPT ![c] =
                 Append(Append(Below(c), [f EXCEPT !.pc = "await"]),
                        Frame(fn, value, typeName, fieldName))]
  /\ ret' = [ret EXCEPT ![c] = None]
  /\ failLog' = failLog
  /\ Overlap(c)

Await(c, fn, value, typeName, fieldName) ==
  AwaitFrom(c, Top(c), fn, value, typeName, fieldName)

\* A hook is invoked: the invocation is observed, and the call is suspended
\* until the hook settles.
Invoke(c, hook, value, typeName) ==
  /\ Await(c, hook, value, typeName, Undefined)
  /\ hookLog' = [hookLog EXCEPT ![c] =
                   Append(@, [hook |-> hook, value |-> value, typeName |-> typeName,
                              path |-> PathOf(stack[c])])]

\* A variant of ProcessValueDispatch that tests `remote` before `primitive`.
ProcessValueDispatch_RemoteFirst(c) ==
  /\ At(c, "processValue", "start")
  /\ LET f == Top(c)
         typeDefinition == getTypeDefinition(typeMap, f.typeName)
     IN  IF Threw(typeDefinition)
         THEN Settle(c, typeDefinition) /\ UNCHANGED hookLog
         ELSE IF Truthy(Get(typeDefinition.v, Str("remote")))
         THEN Invoke(c, "processRemoteValue", f.value, f.typeName)
         ELSE IF Truthy(Get(typeDefinition.v, Str("primitive")))
         THEN Invoke(c, "processPrimitiveValue", f.value, f.typeName)
         ELSE Await(c, "processItem", f.value, f.typeName, Undefined)
              /\ UNCHANGED hookLog
  /\ UNCHANGED <<typeMap, hooks, input>>

\* A variant of ProcessValueDispatch that returns an absent value as it is,
\* without a hook.
ProcessValueDispatch_SkipsAbsent(c) ==
  /\ At(c, "processValue", "start")
  /\ LET f == Top(c)
         typeDefinition == getTypeDefinition(typeMap, f.typeName)
     IN  IF Threw(typeDefinition)
         THEN Settle(c, typeDefinition) /\ UNCHANGED hookLog
         ELSE IF ~valueExists(f.value)
         THEN Settle(c, Return(f.value)) /\ UNCHANGED hookLog
         ELSE IF Truthy(Get(typeDefinition.v, Str("primitive")))
         THEN Invoke(c, "processPrimitiveValue", f.value, f.typeName)
         ELSE IF Truthy(Get(typeDefinition.v, Str("remote")))
         THEN Invoke(c, "processRemoteValue", f.value, f.typeName)
         ELSE Await(c, "processItem", f.value, f.typeName, Undefined)
              /\ UNCHANGED hookLog
  /\ UNCHANGED <<typeMap, hooks, input>>

\* processValue up to its await.
ProcessValueDispatch(c) ==
  /\ At(c, "processValue", "start")
  /\ LET f == Top(c)
         typeDefinition == getTypeDefinition(typeMap, f.typeName)
     IN  IF Threw(typeDefinition)
         THEN Settle(c, typeDefinition) /\ UNCHANGED hookLog
         ELSE IF Truthy(Get(typeDefinition.v, Str("primitive")))
         THEN Invoke(c, "processPrimitiveValue", f.value, f.typeName)
         ELSE IF Truthy(Get(typeDefinition.v, Str("remote")))
         THEN Invoke(c, "processRemoteValue", f.value, f.typeName)
         ELSE Await(c, "processItem", f.value, f.typeName, Undefined)
              /\ UNCHANGED hookLog
  /\ UNCHANGED <<typeMap, hooks, input>>

\* processValue after its await: newValue is returned, an exception passes.
ProcessValueReturn(c) ==
  /\ At(c, "processValue", "await")
  /\ ret[c] # None
  /\ Settle(c, ret[c])
  /\ UNCHANGED <<typeMap, hooks, input, hookLog>>

\* A pending hook settles.
HookSettle(c) ==
  /\ Running(c)
  /\ Top(c).fn \in {"processPrimitiveValue", "processRemoteValue"}
  /\ Settle(c, IF Top(c).fn = "processPrimitiveValue"
               THEN processPrimitiveValue(hooks, Top(c).value, Top(c).typeName)
               ELSE processRemoteValue(hooks, Top(c).value, Top(c).typeName))
  /\ UNCHANGED <<typeMap, hooks, input, hookLog>>

\* A variant of ValueListNext that walks the list from its last element to its
\* first.
ValueListNext_Descending(c, f) ==
  IF f.i < Len(f.value.e)
  THEN AwaitFrom(c, f, "processValue", f.value.e[Len(f.value.e) - f.i],
                 f.typeName, Undefined)
  ELSE Settle(c, IF DOMAIN f.errs # {}
                 THEN Throw(AggregateError(ERROR_MESSAGES.VALUE_LIST_ERROR, f.errs))
                 ELSE Return(f.out))

\* The for loop of processValueList at its condition, with f the record of the
\* method: the next element is awaited, or the loop is left.
ValueListNext(c, f) ==
  IF f.i < Len(f.value.e)
  THEN AwaitFrom(c, f, "processValue", f.value.e[f.i + 1], f.typeName, Undefined)
  ELSE Settle(c, IF DOMAIN f.errs # {}
                 THEN Throw(AggregateError(ERROR_MESSAGES.VALUE_LIST_ERROR, f.errs))
                 ELSE Return(f.out))

\* A variant of ProcessValueListEnter that resolves the type before it looks
\* at the shape of the value.
ProcessValueListEnter_TypeFirst(c) ==
  /\ At(c, "processValueList", "start")
  /\ LET f == Top(c)
         typeDefinition == getTypeDefinition(typeMap, f.typeName)
     IN  IF Threw(typeDefinition)
         THEN Settle(c, typeDefinition)
         ELSE IF InstanceOfArray(f.value)
         THEN ValueListNext(c, [f EXCEPT !.out = Arr(<<>>), !.errs = <<>>, !.i = 0])
         ELSE IF ~valueExists(f.value)
         THEN Settle(c, Return(f.value))
         ELSE Settle(c, Throw(TypeError(ERROR_MESSAGES.INVALID_VALUE_LIST)))
  /\ UNCHANGED <<typeMap, hooks, input, hookLog>>

\* processValueList up to its first await.
ProcessValueListEnter(c) ==
  /\ At(c, "processValueList", "start")
  /\ LET f == Top(c)
     IN  IF InstanceOfArray(f.value)
         THEN ValueListNext(c, [f EXCEPT !.out = Arr(<<>>), !.errs = <<>>, !.i = 0])
         ELSE IF ~valueExists(f.value)
         THEN Settle(c, Return(f.value))
         ELSE Settle(c, Throw(TypeError(ERROR_MESSAGES.INVALID_VALUE_LIST)))
  /\ UNCHANGED <<typeMap, hooks, input, hookLog>>

\* A variant of ProcessValueListResume that records an error under the index
\* the loop has moved on to.
ProcessValueListResume_OffByOne(c) ==
  /\ At(c, "processValueList", "await")
  /\ ret[c] # None
  /\ LET f == Top(c)
     IN  IF Returned(ret[c])
         THEN ValueListNext(c, [f EXCEPT !.out = Arr(Append(f.out.e, ret[c].v)),
                                        !.i = f.i + 1])
         ELSE ValueListNext(c, [f EXCEPT !.errs = PutError(f.errs, f.i + 1, ret[c].v),
                                        !.i = f.i + 1])
  /\ UNCHANGED <<typeMap, hooks, input, hookLog>>

\* A variant of ProcessValueListResume that raises the VALUE_LIST_ERROR at the
\* first element that fails.
ProcessValueListResume_FailFast(c) ==
  /\ At(c, "processValueList", "await")
  /\ ret[c] # None
  /\ LET f == Top(c)
     IN  IF Returned(ret[c])
         THEN ValueListNext(c, [f EXCEPT !.out = Arr(Append(f.out.e, ret[c].v)),
                                        !.i = f.i + 1])
         ELSE Settle(c, Throw(AggregateError(ERROR_MESSAGES.VALUE_LIST_ERROR,
                                             PutError(f.errs, f.i, ret[c].v))))
  /\ UNCHANGED <<typeMap, hooks, input, hookLog>>

\* A variant of ProcessValueListResume that puts null in the output list for
\* an element that fails.
ProcessValueListResume_PushesNull(c) ==
  /\ At(c, "processValueList", "await")
  /\ ret[c] # None
  /\ LET f == Top(c)
     IN  IF Returned(ret[c])
         THEN ValueListNext(c, [f EXCEPT !.out = Arr(Append(f.out.e, ret[c].v)),
                                        !.i = f.i + 1])
         ELSE ValueListNext(c, [f EXCEPT !.out = Arr(Append(f.out.e, Null)),
                                        !.errs = PutError(f.errs, f.i, ret[c].v),
                                        !.i = f.i + 1])
  /\ UNCHANGED <<typeMap, hooks, input, hookLog>>

\* processValueList from the settling of an element to the next await.
ProcessValueListResume(c) ==
  /\ At(c, "processValueList", "await")
  /\ ret[c] # None
  /\ LET f == Top(c)
     IN  IF Returned(ret[c])
         THEN ValueListNext(c, [f EXCEPT !.out = Arr(Append(f.out.e, ret[c].v)),
                                        !.i = f.i + 1])
         ELSE ValueListNext(c, [f EXCEPT !.errs = PutError(f.errs, f.i, ret[c].v),
                                        !.i = f.i + 1])
  /\ UNCHANGED <<typeMap, hooks, input, hookLog>>

\* A variant of ProcessFieldValueDispatch that resolves the type the field
\* descriptor names before it hands the value on.
ProcessFieldValueDispatch_ResolvesType(c) ==
  /\ At(c, "processFieldValue", "start")
  /\ LET f == Top(c)
         fieldDescriptor == getFieldDescriptor(typeMap, f.typeName, f.fieldName)
     IN  IF Threw(fieldDescriptor)
         THEN Settle(c, fieldDescriptor)
         ELSE IF Threw(getTypeDefinition(typeMap, Get(fieldDescriptor.v, Str("type"))))
         THEN Settle(c, getTypeDefinition(typeMap, Get(fieldDescriptor.v, Str("type"))))
         ELSE IF Truthy(Get(fieldDescriptor.v, Str("multiple")))
         THEN Await(c, "processValueList", f.value,
                    Get(fieldDescriptor.v, Str("type")), Undefined)
         ELSE Await(c, "processValue", f.value,
                    Get(fieldDescriptor.v, Str("type")), Undefined)
  /\ UNCHANGED <<typeMap, hooks, input, hookLog>>

\* processFieldValue up to its await.
ProcessFieldValueDispatch(c) ==
  /\ At(c, "processFieldValue", "start")
  /\ LET f == Top(c)
         fieldDescriptor == getFieldDescriptor(typeMap, f.typeName, f.fieldName)
     IN  IF Threw(fieldDescriptor)
         THEN Settle(c, fieldDescriptor)
         ELSE IF Truthy(Get(fieldDescriptor.v, Str("multiple")))
         THEN Await(c, "processValueList", f.value,
                    Get(fieldDescriptor.v, Str("type")), Undefined)
         ELSE Await(c, "processValue", f.value,
                    Get(fieldDescriptor.v, Str("type")), Undefined)
  /\ UNCHANGED <<typeMap, hooks, input, hookLog>>

\* A variant of ProcessFieldValueReturn that, of a VALUE_LIST_ERROR, passes on
\* the error of the first failed element in place of the aggregate.
ProcessFieldValueReturn_Unwraps(c) ==
  /\ At(c, "processFieldValue", "await")
  /\ ret[c] # None
  /\ IF ThrewMessage(ret[c], ERROR_MESSAGES.VALUE_LIST_ERROR)
     THEN LET first == CHOOSE i \in DOMAIN ret[c].v.sub :
                         \A j \in DOMAIN ret[c].v.sub : i <= j
          IN  Settle(c, Throw(ret[c].v.sub[first]))
     ELSE Settle(c, ret[c])
  /\ UNCHANGED <<typeMap, hooks, input, hookLog>>

\* processFieldValue after its await.
ProcessFieldValueReturn(c) ==
  /\ At(c, "processFieldValue", "await")
  /\ ret[c] # None
  /\ Settle(c, ret[c])
  /\ UNCHANGED <<typeMap, hooks, input, hookLog>>

\* The for loop of processItem at its condition, with f the record of the
\* method: the next field is awaited, or the loop is left.
ItemNext(c, f) ==
  IF f.i < Len(f.fieldList)
  THEN AwaitFrom(c, f, "processFieldValue", Get(f.value, Str(f.fieldList[f.i + 1])),
                 f.typeName, Str(f.fieldList[f.i + 1]))
  ELSE Settle(c, IF DOMAIN f.errs # {}
                 THEN Throw(AggregateError(ERROR_MESSAGES.ITEM_ERROR, f.errs))
                 ELSE Return(f.out))

\* The error map of another call's pending processItem, if there is one.
ErrorsOfOthers(c) ==
  LET others == {d \in Calls \ {c} :
                   /\ Running(d)
                   /\ stack[d][1].fn = "processItem"
                   /\ DOMAIN stack[d][1].errs # {}}
  IN  IF others = {} THEN <<>> ELSE stack[CHOOSE d \in others : TRUE][1].errs

\* A variant of ProcessItemEnter of which the error map is one map of the
\* instance, shared by the calls, instead of a map of the call.
ProcessItemEnter_SharedErrors(c) ==
  /\ At(c, "processItem", "start")
  /\ LET f == Top(c)
         fieldList == getFieldList(typeMap, f.typeName)
     IN  IF InstanceOfObject(f.value)
         THEN IF Threw(fieldList)
              THEN Settle(c, fieldList)
              ELSE ItemNext(c, [f EXCEPT !.fieldList = fieldList.v, !.i = 0,
                                         !.out = EmptyObj,
                                         !.errs = ErrorsOfOthers(c)])
         ELSE IF ~valueExists(f.value)
         THEN Settle(c, Return(f.value))
         ELSE Settle(c, Throw(TypeError(ERROR_MESSAGES.INVALID_ITEM)))
  /\ UNCHANGED <<typeMap, hooks, input, hookLog>>

\* A variant of ProcessItemEnter that starts the output from a copy of the
\* item instead of an empty record.
ProcessItemEnter_CopiesItem(c) ==
  /\ At(c, "processItem", "start")
  /\ LET f == Top(c)
         fieldList == getFieldList(typeMap, f.typeName)
     IN  IF InstanceOfObject(f.value)
         THEN IF Threw(fieldList)
              THEN Settle(c, fieldList)
              ELSE ItemNext(c, [f EXCEPT !.fieldList = fieldList.v, !.i = 0,
                                         !.out = IF f.value.k = "object"
                                                 THEN f.value ELSE EmptyObj,
                                         !.errs = <<>>])
         ELSE IF ~valueExists(f.value)
         THEN Settle(c, Return(f.value))
         ELSE Settle(c, Throw(TypeError(ERROR_MESSAGES.INVALID_ITEM)))
  /\ UNCHANGED <<typeMap, hooks, input, hookLog>>

\* processItem up to its first await.
ProcessItemEnter(c) ==
  /\ At(c, "processItem", "start")
  /\ LET f == Top(c)
         fieldList == getFieldList(typeMap, f.typeName)
     IN  IF InstanceOfObject(f.value)
         THEN IF Threw(fieldList)
              THEN Settle(c, fieldList)
              ELSE ItemNext(c, [f EXCEPT !.fieldList = fieldList.v, !.i = 0,
                                         !.out = EmptyObj, !.errs = <<>>])
         ELSE IF ~valueExists(f.value)
         THEN Settle(c, Return(f.value))
         ELSE Settle(c, Throw(TypeError(ERROR_MESSAGES.INVALID_ITEM)))
  /\ UNCHANGED <<typeMap, hooks, input, hookLog>>

\* A variant of ProcessItemResume that raises the ITEM_ERROR at the first
\* field that fails.
ProcessItemResume_FailFast(c) ==
  /\ At(c, "processItem", "await")
  /\ ret[c] # None
  /\ LET f == Top(c)
         fieldName == f.fieldList[f.i + 1]
     IN  IF Returned(ret[c])
         THEN ItemNext(c, [f EXCEPT !.out = Put(f.out, fieldName, ret[c].v),
                                   !.i = f.i + 1])
         ELSE Settle(c, Throw(AggregateError(ERROR_MESSAGES.ITEM_ERROR,
                                             PutError(f.errs, fieldName, ret[c].v))))
  /\ UNCHANGED <<typeMap, hooks, input, hookLog>>

\* A variant of ProcessItemResume that sets the field of the output to
\* undefined when the field fails.
ProcessItemResume_SetsFailed(c) ==
  /\ At(c, "processItem", "await")
  /\ ret[c] # None
  /\ LET f == Top(c)
         fieldName == f.fieldList[f.i + 1]
     IN  IF Returned(ret[c])
         THEN ItemNext(c, [f EXCEPT !.out = Put(f.out, fieldName, ret[c].v),
                                   !.i = f.i + 1])
         ELSE ItemNext(c, [f EXCEPT !.out = Put(f.out, fieldName, Undefined),
                                   !.errs = PutError(f.errs, fieldName, ret[c].v),
                                   !.i = f.i + 1])
  /\ UNCHANGED <<typeMap, hooks, input, hookLog>>

\* A variant of ProcessItemResume that processes a field that fails again.
ProcessItemResume_RetriesFailed(c) ==
  /\ At(c, "processItem", "await")
  /\ ret[c] # None
  /\ LET f == Top(c)
         fieldName == f.fieldList[f.i + 1]
     IN  IF Returned(ret[c])
         THEN ItemNext(c, [f EXCEPT !.out = Put(f.out, fieldName, ret[c].v),
                                   !.i = f.i + 1])
         ELSE ItemNext(c, [f EXCEPT !.errs = PutError(f.errs, fieldName, ret[c].v)])
  /\ UNCHANGED <<typeMap, hooks, input, hookLog>>

\* processItem from the settling of a field to the next await.
ProcessItemResume(c) ==
  /\ At(c, "processItem", "await")
  /\ ret[c] # None
  /\ LET f == Top(c)
         fieldName == f.fieldList[f.i + 1]
     IN  IF Returned(ret[c])
         THEN ItemNext(c, [f EXCEPT !.out = Put(f.out, fieldName, ret[c].v),
                                   !.i = f.i + 1])
         ELSE ItemNext(c, [f EXCEPT !.errs = PutError(f.errs, fieldName, ret[c].v),
                                   !.i = f.i + 1])
  /\ UNCHANGED <<typeMap, hooks, input, hookLog>>

\* The caller takes the completion of its call, and may call again.
Collect(c) ==
  /\ Done(c)
  /\ input' = [input EXCEPT ![c] = NoInput]
  /\ ret' = [ret EXCEPT ![c] = None]
  /\ hookLog' = [hookLog EXCEPT ![c] = <<>>]
  /\ failLog' = [failLog EXCEPT ![c] = {}]
  /\ overlap' = overlap \ {c}
  /\ UNCHANGED <<typeMap, hooks, stack>>

\* One step of call c.
Step(c) ==
  \/ CallTraversal(c)
  \/ CallGetTypeDefinition(c)
  \/ CallGetFieldList(c)
  \/ CallGetFieldDescriptor(c)
  \/ CallGetTypeFeature(c)
  \/ CallGetFieldFeature(c)
  \/ ProcessValueDispatch(c)
  \/ ProcessValueReturn(c)
  \/ HookSettle(c)
  \/ ProcessValueListEnter(c)
  \/ ProcessValueListResume(c)
  \/ ProcessFieldValueDispatch(c)
  \/ ProcessFieldValueReturn(c)
  \/ ProcessItemEnter(c)
  \/ ProcessItemResume(c)
  \/ Collect(c)

\* One caller: the calls on the instance are made one after the other.
Next == Step(1)

Spec == Init /\ [][Next]_vars

(***************************************************************************)
(* The traversal under the scheduling of the event loop: a method that can *)
(* take its next step takes it, and a hook that was invoked completes.     *)
(***************************************************************************)
\* A step of a pending call.
Advance(c) ==
  \/ ProcessValueDispatch(c)
  \/ ProcessValueReturn(c)
  \/ HookSettle(c)
  \/ ProcessValueListEnter(c)
  \/ ProcessValueListResume(c)
  \/ ProcessFieldValueDispatch(c)
  \/ ProcessFieldValueReturn(c)
  \/ ProcessItemEnter(c)
  \/ ProcessItemResume(c)

\* One caller of the traversal entry points.
NextTraversal == CallTraversal(1) \/ Advance(1) \/ Collect(1)

SpecTermination ==
  Init /\ [][NextTraversal]_vars /\ \A c \in Calls : WF_vars(Advance(c))

(***************************************************************************)
(* Several callers: traversals of one instance that run at the same time.  *)
(***************************************************************************)
Job(entry, value, typeName) ==
  [entry |-> entry, value |-> value, typeName |-> typeName]

ConcurrentJobs ==
  {Job("processItem", Contact4, Str("Contact")),
   Job("processValueList", Arr(<<Str("bad"), Str("a")>>), Str("String")),
   Job("processValue", Contact1, Str("Contact"))}

CallConcurrently(c) ==
  \E job \in ConcurrentJobs : Begin(c, job.entry, job.value, job.typeName)

StepConcurrent(c) ==
  \/ CallConcurrently(c)
  \/ ProcessValueDispatch(c)
  \/ ProcessValueReturn(c)
  \/ HookSettle(c)
  \/ ProcessValueListEnter(c)
  \/ ProcessValueListResume(c)
  \/ ProcessFieldValueDispatch(c)
  \/ ProcessFieldValueReturn(c)
  \/ ProcessItemEnter(c)
  \/ ProcessItemResume(c)
  \/ Collect(c)

InitConcurrent == Init /\ typeMap = TypeMapTest

NextConcurrent == \E c \in Calls : StepConcurrent(c)

SpecConcurrent == InitConcurrent /\ [][NextConcurrent]_vars

(***************************************************************************)
(* Vocabulary of the properties.                                           *)
(***************************************************************************)
LookupEntries ==
  {"getTypeDefinition", "getFieldList", "getFieldDescriptor", "getTypeFeature",
   "getFieldFeature"}

\* Call c has settled after a call of entry.
DoneWith(c, entry) == Done(c) /\ input[c].entry = entry

\* The type map is an object that stores an entry of its own under the name.
HasEntry(typeName) ==
  InstanceOfObject(typeMap) /\ PropertyKey(typeName) \in OwnKeys(typeMap)

\* The name reaches nothing through the type map: no entry and no inherited
\* member.
NamesNothing(typeName) ==
  ~HasEntry(typeName) /\ PropertyKey(typeName) \notin InheritedKeys

\* The declared field names of a type whose definition has a fields map.
HasFields(typeName) == Returned(getFieldList(typeMap, typeName))

DeclaredFields(typeName) ==
  LET l == getFieldList(typeMap, typeName).v IN {l[n] : n \in 1..Len(l)}

\* The JavaScript indices of a list.
Indices(list) == 0..(Len(list.e) - 1)

(***************************************************************************)
(* C1 (as stated): for every type name that is absent from the type map,   *)
(* every entry point fails with NON_EXISTENT_TYPE, whatever value it is    *)
(* given.                                                                  *)
(***************************************************************************)
C1_AbsentTypeAlwaysFails ==
  \A c \in Calls :
    Done(c) /\ NamesNothing(input[c].typeName)
      => ThrewMessage(ret[c], ERROR_MESSAGES.NON_EXISTENT_TYPE)

(***************************************************************************)
(* C1 (amended): for every type name that reaches nothing through the type *)
(* map, the five lookup methods and processValue fail with                 *)
(* NON_EXISTENT_TYPE for every argument; processItem fails with it for a   *)
(* record-shaped item, returns an absent item and fails with INVALID_ITEM  *)
(* for a scalar; processValueList raises a VALUE_LIST_ERROR that maps      *)
(* every index to NON_EXISTENT_TYPE for a non-empty list, returns an empty *)
(* list for an empty list, returns an absent value and fails with          *)
(* INVALID_VALUE_LIST for any other value.                                 *)
(***************************************************************************)
C1_AbsentType ==
  \A c \in Calls :
    Done(c) /\ NamesNothing(input[c].typeName) =>
      LET in == input[c]
          r == ret[c]
      IN  CASE in.entry \in LookupEntries \cup {"processValue"} ->
                 ThrewMessage(r, ERROR_MESSAGES.NON_EXISTENT_TYPE)
            [] in.entry = "processItem" ->
                 IF InstanceOfObject(in.value)
                 THEN ThrewMessage(r, ERROR_MESSAGES.NON_EXISTENT_TYPE)
                 ELSE IF ~valueExists(in.value) THEN r = Return(in.value)
                 ELSE ThrewMessage(r, ERROR_MESSAGES.INVALID_ITEM)
            [] in.entry = "processValueList" ->
                 IF InstanceOfArray(in.value)
                 THEN IF Len(in.value.e) = 0 THEN r = Return(Arr(<<>>))
                      ELSE /\ ThrewMessage(r, ERROR_MESSAGES.VALUE_LIST_ERROR)
                           /\ DOMAIN r.v.sub = Indices(in.value)
                           /\ \A i \in Indices(in.value) :
                                r.v.sub[i] = TypeError(ERROR_MESSAGES.NON_EXISTENT_TYPE)
                 ELSE IF ~valueExists(in.value) THEN r = Return(in.value)
                 ELSE ThrewMessage(r, ERROR_MESSAGES.INVALID_VALUE_LIST)

\* processValueList has settled for a non-empty list and a name that reaches
\* nothing.
C1_Witness ==
  \E c \in Calls :
    /\ DoneWith(c, "processValueList")
    /\ NamesNothing(input[c].typeName)
    /\ InstanceOfArray(input[c].value)
    /\ Len(input[c].value.e) > 0

(***************************************************************************)
(* C2: getTypeDefinition(typeName) returns the entry the type map stores   *)
(* under typeName when that entry is an object or a function, throws       *)
(* NON_EXISTENT_TYPE when the name has no entry or the map is no object,   *)
(* and returns nothing else.                                               *)
(***************************************************************************)
C2_GetTypeDefinition ==
  \A c \in Calls :
    DoneWith(c, "getTypeDefinition") =>
      LET name == PropertyKey(input[c].typeName)
      IN  IF HasEntry(input[c].typeName) /\ InstanceOfObject(typeMap.f[name])
          THEN ret[c] = Return(typeMap.f[name])
          ELSE ThrewMessage(ret[c], ERROR_MESSAGES.NON_EXISTENT_TYPE)

(***************************************************************************)
(* What happens to the parts of a value when they are processed alone.     *)
(***************************************************************************)
\* The completion of processing the declared field of an item.
FieldOutcome(item, typeName, fieldName) ==
  processFieldValue(typeMap, hooks, Get(item, Str(fieldName)), typeName,
                    Str(fieldName))

\* The declared fields of the type that fail when processed.
FailingFields(item, typeName) ==
  {fieldName \in DeclaredFields(typeName) :
     Threw(FieldOutcome(item, typeName, fieldName))}

\* The completion of processing the element at index i of a list.
ElementOutcome(list, typeName, i) ==
  processValue(typeMap, hooks, list.e[i + 1], typeName)

\* The indices of the elements that fail when processed.
FailingIndices(list, typeName) ==
  {i \in Indices(list) : Threw(ElementOutcome(list, typeName, i))}

(***************************************************************************)
(* C3: for every composite type with a declared fields map and every       *)
(* record-shaped input of which no field fails, processItem returns a      *)
(* record whose key set is exactly the set of declared field names: every  *)
(* declared field is a key, no undeclared key of the input is.             *)
(***************************************************************************)
C3_OutputKeysAreDeclaredFields ==
  \A c \in Calls :
    /\ DoneWith(c, "processItem")
    /\ InstanceOfObject(input[c].value)
    /\ HasFields(input[c].typeName)
    /\ FailingFields(input[c].value, input[c].typeName) = {}
    => /\ Returned(ret[c])
       /\ ret[c].v.k = "object"
       /\ OwnKeys(ret[c].v) = DeclaredFields(input[c].typeName)
       /\ \A n \in 1..Len(ObjectKeys(ret[c].v)) :
            ObjectKeys(ret[c].v)[n] \in DeclaredFields(input[c].typeName)

\* processItem has returned for an input that has an undeclared key and lacks
\* a declared one.
C3_Witness ==
  \E c \in Calls :
    /\ DoneWith(c, "processItem")
    /\ InstanceOfObject(input[c].value)
    /\ HasFields(input[c].typeName)
    /\ Returned(ret[c])
    /\ OwnKeys(input[c].value) \ DeclaredFields(input[c].typeName) # {}
    /\ DeclaredFields(input[c].typeName) \ OwnKeys(input[c].value) # {}

(***************************************************************************)
(* C4: for every list of N elements of an existing type, with I the set of *)
(* the indices whose elements fail when processed: if I is not empty,      *)
(* processValueList raises a VALUE_LIST_ERROR whose index map has key set  *)
(* I and maps each index to the error of its element; if I is empty it     *)
(* returns the list of the N processed values in input order.              *)
(***************************************************************************)
C4_ValueListErrorIndices ==
  \A c \in Calls :
    /\ DoneWith(c, "processValueList")
    /\ InstanceOfArray(input[c].value)
    /\ Returned(getTypeDefinition(typeMap, input[c].typeName))
    => LET list == input[c].value
           typeName == input[c].typeName
           I == FailingIndices(list, typeName)
       IN  IF I # {}
           THEN /\ ThrewMessage(ret[c], ERROR_MESSAGES.VALUE_LIST_ERROR)
                /\ DOMAIN ret[c].v.sub = I
                /\ \A i \in I : ret[c].v.sub[i] = ElementOutcome(list, typeName, i).v
           ELSE /\ Returned(ret[c])
                /\ InstanceOfArray(ret[c].v)
                /\ Len(ret[c].v.e) = Len(list.e)
                /\ \A i \in Indices(list) :
                     ret[c].v.e[i + 1] = ElementOutcome(list, typeName, i).v

\* processValueList has settled for a list of an existing type of which some
\* element, but not the first, fails and another does not.
C4_Witness ==
  \E c \in Calls :
    /\ DoneWith(c, "processValueList")
    /\ InstanceOfArray(input[c].value)
    /\ Returned(getTypeDefinition(typeMap, input[c].typeName))
    /\ FailingIndices(input[c].value, input[c].typeName) \notin
         {{}, Indices(input[c].value)}
    /\ 0 \notin FailingIndices(input[c].value, input[c].typeName)

(***************************************************************************)
(* The classification of a type whose definition the type map yields.      *)
(***************************************************************************)
Resolves(typeName) == Returned(getTypeDefinition(typeMap, typeName))

IsPrimitive(typeName) ==
  Resolves(typeName)
  /\ Truthy(Get(getTypeDefinition(typeMap, typeName).v, Str("primitive")))

IsRemote(typeName) ==
  Resolves(typeName) /\ ~IsPrimitive(typeName)
  /\ Truthy(Get(getTypeDefinition(typeMap, typeName).v, Str("remote")))

IsComposite(typeName) ==
  Resolves(typeName) /\ ~IsPrimitive(typeName) /\ ~IsRemote(typeName)

\* What processItem settles with, given the set F of the fields that fail.
ItemSettlesPerField(c, F) ==
  LET item == input[c].value
      typeName == input[c].typeName
  IN  IF F # {}
      THEN /\ ThrewMessage(ret[c], ERROR_MESSAGES.ITEM_ERROR)
           /\ DOMAIN ret[c].v.sub = F
           /\ \A fieldName \in F :
                ret[c].v.sub[fieldName] = FieldOutcome(item, typeName, fieldName).v
      ELSE /\ Returned(ret[c])
           /\ ret[c].v.k = "object"
           /\ \A fieldName \in DeclaredFields(typeName) :
                /\ fieldName \in OwnKeys(ret[c].v)
                /\ ret[c].v.f[fieldName] = FieldOutcome(item, typeName, fieldName).v

(***************************************************************************)
(* C5 (as stated): for every record-shaped item of a composite type, with  *)
(* F the set of the declared fields that fail when processed: if F is not  *)
(* empty, processItem raises an ITEM_ERROR whose fields map has key set F  *)
(* and maps each field to its error; if F is empty it raises nothing and   *)
(* every declared field is in the returned record with its transformed     *)
(* value.                                                                  *)
(***************************************************************************)
C5_ItemErrorFieldsOfAnyComposite ==
  \A c \in Calls :
    /\ DoneWith(c, "processItem")
    /\ InstanceOfObject(input[c].value)
    /\ HasEntry(input[c].typeName)
    /\ IsComposite(input[c].typeName)
    => IF HasFields(input[c].typeName)
       THEN ItemSettlesPerField(c, FailingFields(input[c].value, input[c].typeName))
       ELSE Returned(ret[c])

(***************************************************************************)
(* C5 (amended): the same, for every record-shaped item of a composite     *)
(* type that has a declared fields map.                                    *)
(***************************************************************************)
C5_ItemErrorFields ==
  \A c \in Calls :
    /\ DoneWith(c, "processItem")
    /\ InstanceOfObject(input[c].value)
    /\ IsComposite(input[c].typeName)
    /\ HasFields(input[c].typeName)
    => ItemSettlesPerField(c, FailingFields(input[c].value, input[c].typeName))

\* processItem has settled for a record of which a field fails, but not the
\* first declared one, and another field does not.
C5_Witness ==
  \E c \in Calls :
    /\ DoneWith(c, "processItem")
    /\ InstanceOfObject(input[c].value)
    /\ IsComposite(input[c].typeName)
    /\ HasFields(input[c].typeName)
    /\ FailingFields(input[c].value, input[c].typeName) \notin
         {{}, DeclaredFields(input[c].typeName)}
    /\ getFieldList(typeMap, input[c].typeName).v[1] \notin
         FailingFields(input[c].value, input[c].typeName)

(***************************************************************************)
(* C7: for every type name T, processValueList(v, T) and processItem(v, T) *)
(* with v undefined or null return v itself, raise nothing and invoke no   *)
(* hook.                                                                   *)
(***************************************************************************)
C7_AbsencePassthrough ==
  \A c \in Calls :
    /\ Done(c)
    /\ input[c].entry \in {"processValueList", "processItem"}
    /\ input[c].value \in {Undefined, Null}
    => /\ ret[c] = Return(input[c].value)
       /\ hookLog[c] = <<>>

\* processItem has settled for null and a primitive type.
C7_Witness ==
  \E c \in Calls :
    /\ DoneWith(c, "processItem")
    /\ input[c].value = Null
    /\ IsPrimitive(input[c].typeName)

(***************************************************************************)
(* Conformance of a value to the schema, its restriction to the declared   *)
(* fields, and deep equality.                                              *)
(***************************************************************************)
RECURSIVE Conforms(_, _)
RECURSIVE ConformsItem(_, _)
RECURSIVE ConformsList(_, _)
RECURSIVE Restrict(_, _)
RECURSIVE RestrictItem(_, _)
RECURSIVE RestrictList(_, _)
RECURSIVE DeepEqual(_, _)

Descriptor(typeName, fieldName) ==
  getFieldDescriptor(typeMap, typeName, Str(fieldName))

IsMultiple(typeName, fieldName) ==
  Truthy(Get(Descriptor(typeName, fieldName).v, Str("multiple")))

FieldType(typeName, fieldName) ==
  Get(Descriptor(typeName, fieldName).v, Str("type"))

\* A value conforms to a leaf type whatever it is, and to a composite type
\* when it is absent or a record that has every declared field as a key, each
\* with a conforming value.
Conforms(value, typeName) ==
  /\ Resolves(typeName)
  /\ IsComposite(typeName) => ConformsItem(value, typeName)

ConformsItem(item, typeName) ==
  \/ ~valueExists(item)
  \/ /\ item.k = "object"
     /\ HasFields(typeName)
     /\ \A fieldName \in DeclaredFields(typeName) :
          /\ fieldName \in OwnKeys(item)
          /\ Returned(Descriptor(typeName, fieldName))
          /\ IF IsMultiple(typeName, fieldName)
             THEN ConformsList(item.f[fieldName], FieldType(typeName, fieldName))
             ELSE Conforms(item.f[fieldName], FieldType(typeName, fieldName))

ConformsList(list, typeName) ==
  \/ ~valueExists(list)
  \/ /\ InstanceOfArray(list)
     /\ \A n \in 1..Len(list.e) : Conforms(list.e[n], typeName)

Restrict(value, typeName) ==
  IF IsComposite(typeName) THEN RestrictItem(value, typeName) ELSE value

RestrictItem(item, typeName) ==
  IF ~valueExists(item) THEN item
  ELSE Obj(getFieldList(typeMap, typeName).v,
           [fieldName \in DeclaredFields(typeName) |->
              IF IsMultiple(typeName, fieldName)
              THEN RestrictList(item.f[fieldName], FieldType(typeName, fieldName))
              ELSE Restrict(item.f[fieldName], FieldType(typeName, fieldName))])

RestrictList(list, typeName) ==
  IF ~valueExists(list) THEN list
  ELSE Arr([n \in 1..Len(list.e) |-> Restrict(list.e[n], typeName)])

DeepEqual(a, b) ==
  /\ a.k = b.k
  /\ CASE a.k = "object" ->
            /\ OwnKeys(a) = OwnKeys(b)
            /\ \A key \in OwnKeys(a) : DeepEqual(a.f[key], b.f[key])
       [] a.k = "array" ->
            /\ Len(a.e) = Len(b.e)
            /\ \A n \in 1..Len(a.e) : DeepEqual(a.e[n], b.e[n])
       [] OTHER -> a = b

ConformsAs(entry, value, typeName) ==
  CASE entry = "processValue" -> Conforms(value, typeName)
    [] entry = "processItem" -> ConformsItem(value, typeName)
    [] entry = "processValueList" -> ConformsList(value, typeName)

RestrictAs(entry, value, typeName) ==
  CASE entry = "processValue" -> Restrict(value, typeName)
    [] entry = "processItem" -> RestrictItem(value, typeName)
    [] entry = "processValueList" -> RestrictList(value, typeName)

\* The completion of entry(value, typeName) when the call runs alone.
RunAlone(entry, value, typeName) ==
  CASE entry = "processValue" -> processValue(typeMap, hooks, value, typeName)
    [] entry = "processItem" -> processItem(typeMap, hooks, value, typeName)
    [] entry = "processValueList" ->
         processValueList(typeMap, hooks, value, typeName)

HookCall(hook, value, typeName) ==
  [hook |-> hook, value |-> value, typeName |-> typeName, path |-> <<>>]

\* The hook was invoked with the value, for the type, during call c.
Invoked(c, hook, value, typeName) ==
  \E n \in 1..Len(hookLog[c]) :
    [hookLog[c][n] EXCEPT !.path = <<>>] = HookCall(hook, value, typeName)

\* processValue dispatches on the three-way classification of the type.
ValueDispatch(c) ==
  DoneWith(c, "processValue") /\ Resolves(input[c].typeName) =>
    LET value == input[c].value
        typeName == input[c].typeName
    IN  CASE IsPrimitive(typeName) ->
               /\ hookLog[c] = <<HookCall("processPrimitiveValue", value, typeName)>>
               /\ ret[c] = processPrimitiveValue(hooks, value, typeName)
          [] IsRemote(typeName) ->
               /\ hookLog[c] = <<HookCall("processRemoteValue", value, typeName)>>
               /\ ret[c] = processRemoteValue(hooks, value, typeName)
          [] OTHER ->
               ret[c] = processItem(typeMap, hooks, value, typeName)

\* A hook is a leaf of the call stack, and processItem is never entered from
\* a processValue of a primitive or remote type.
NoDescentBelowLeaf(c) ==
  \A n \in 1..Len(stack[c]) :
    /\ stack[c][n].fn \in {"processPrimitiveValue", "processRemoteValue"}
         => n = Len(stack[c])
    /\ n > 1 /\ stack[c][n - 1].fn = "processValue"
         => IF IsPrimitive(stack[c][n - 1].typeName)
            THEN stack[c][n].fn = "processPrimitiveValue"
            ELSE IF IsRemote(stack[c][n - 1].typeName)
            THEN stack[c][n].fn = "processRemoteValue"
            ELSE stack[c][n].fn = "processItem"

\* processItem on a record invokes the hook of the type with the value of
\* each field of the given fields whose type is primitive or remote.
FieldHooksInvoked(c, fieldNames) ==
  DoneWith(c, "processItem") /\ InstanceOfObject(input[c].value)
  /\ HasFields(input[c].typeName) =>
    \A fieldName \in fieldNames :
      LET value == Get(input[c].value, Str(fieldName))
          fieldType == FieldType(input[c].typeName, fieldName)
      IN  /\ IsPrimitive(fieldType)
               => Invoked(c, "processPrimitiveValue", value, fieldType)
          /\ IsRemote(fieldType)
               => Invoked(c, "processRemoteValue", value, fieldType)

\* The declared fields with a descriptor, and the single-valued ones of them.
DescribedFields(typeName) ==
  {fieldName \in DeclaredFields(typeName) : Returned(Descriptor(typeName, fieldName))}

SingleFields(typeName) ==
  {fieldName \in DescribedFields(typeName) : ~IsMultiple(typeName, fieldName)}

(***************************************************************************)
(* C8 (as stated): processValue invokes the primitive hook exactly once    *)
(* with the value and returns its result when `primitive` is set, else     *)
(* does the same with the remote hook when `remote` is set, else delegates *)
(* to processItem; primitive wins when both are set; the fields of a value *)
(* of a primitive or remote type are never entered; and processItem on a   *)
(* record invokes the primitive (remote) hook with the value of each field *)
(* of primitive (remote) type.                                             *)
(***************************************************************************)
C8_DispatchEveryField ==
  \A c \in Calls :
    /\ ValueDispatch(c)
    /\ NoDescentBelowLeaf(c)
    /\ FieldHooksInvoked(c, DescribedFields(input[c].typeName))

(***************************************************************************)
(* C8 (amended): the same, where processItem on a record invokes the hook  *)
(* with the value of each field of primitive or remote type that is not    *)
(* `multiple`.                                                             *)
(***************************************************************************)
C8_Dispatch ==
  \A c \in Calls :
    /\ ValueDispatch(c)
    /\ NoDescentBelowLeaf(c)
    /\ FieldHooksInvoked(c, SingleFields(input[c].typeName))

\* processValue has settled for a type with both flags set, under hooks of
\* which the primitive and the remote one give different results.
C8_Witness ==
  \E c \in Calls :
    /\ DoneWith(c, "processValue")
    /\ IsPrimitive(input[c].typeName)
    /\ Truthy(Get(getTypeDefinition(typeMap, input[c].typeName).v, Str("remote")))
    /\ processPrimitiveValue(hooks, input[c].value, input[c].typeName)
         # processRemoteValue(hooks, input[c].value, input[c].typeName)

(***************************************************************************)
(* C9: when several traversal calls run against the same instance and      *)
(* their steps interleave at the suspension points, each call returns the  *)
(* output, or raises the error map, that it returns or raises when it runs *)
(* alone.                                                                  *)
(***************************************************************************)
C9_ConcurrentCallsAsAlone ==
  \A c \in Calls :
    Done(c) /\ input[c].entry \in TraversalEntries
      => ret[c] = RunAlone(input[c].entry, input[c].value, input[c].typeName)

\* Two calls that took steps while the other was pending have settled, one
\* with an aggregate error and one with an output.
C9_Witness ==
  \E c, d \in Calls :
    /\ {c, d} \subseteq overlap
    /\ Done(c) /\ ThrewMessage(ret[c], ERROR_MESSAGES.ITEM_ERROR)
    /\ Done(d) /\ Returned(ret[d]) /\ ret[d].v.k = "object"

(***************************************************************************)
(* C10: no operation of the core changes the type map: after any sequence  *)
(* of calls, successful or failed, the type map with every type definition *)
(* and field descriptor in it is what it was at construction.              *)
(***************************************************************************)
C10_TypeMapNeverChanges == [][typeMap' = typeMap]_vars

\* A traversal has failed and a hook has run during it.
C10_Witness ==
  \E c \in Calls :
    /\ Done(c) /\ input[c].entry \in TraversalEntries
    /\ Threw(ret[c])
    /\ hookLog[c] # <<>>

(***************************************************************************)
(* The failures an error stands for: a terminal error stands for itself,   *)
(* an aggregate for the failures of the errors in its map, each under the  *)
(* key it is stored at (a field name in an ITEM_ERROR, an index in a       *)
(* VALUE_LIST_ERROR).                                                      *)
(***************************************************************************)
RECURSIVE Flatten(_)

KeyOf(error, key) ==
  IF error.message = ERROR_MESSAGES.ITEM_ERROR THEN Str(key) ELSE Index(key)

Flatten(error) ==
  IF "sub" \in DOMAIN error
  THEN UNION {{<<<<KeyOf(error, key)>> \o pe[1], pe[2]>> :
                 pe \in Flatten(error.sub[key])} : key \in DOMAIN error.sub}
  ELSE {<<<<>>, error>>}

(***************************************************************************)
(* C11: aggregate errors nest to mirror the data shape.  When a traversal  *)
(* has settled, the failures the raised error stands for, each with the    *)
(* path of field names (ITEM_ERROR levels) and indices (VALUE_LIST_ERROR   *)
(* levels) that leads to it, are exactly the terminal failures that        *)
(* occurred during the call, each with the path it occurred at; when none  *)
(* occurred the call returns an output.                                    *)
(***************************************************************************)
C11_ErrorsMirrorPaths ==
  \A c \in Calls :
    Done(c) /\ input[c].entry \in TraversalEntries =>
      IF failLog[c] = {}
      THEN Returned(ret[c])
      ELSE Threw(ret[c]) /\ Flatten(ret[c].v) = failLog[c]

\* A traversal has settled after failures below the root, one of them under a
\* field of a record that is an element of a list that is a field of the root.
C11_Witness ==
  \E c \in Calls :
    /\ Done(c) /\ input[c].entry \in TraversalEntries
    /\ Cardinality(failLog[c]) > 1
    /\ \E pe \in failLog[c] :
         /\ Len(pe[1]) = 3
         /\ pe[1][1].k = "string" /\ pe[1][2].k = "index" /\ pe[1][3].k = "string"

\* A record-shaped value: an object that is no list, function or error.
RecordShaped(value) == value.k = "object"

\* A present value that has not the shape the operation works on.
WrongShapeForItem(value) == valueExists(value) /\ ~RecordShaped(value)

WrongShapeForList(value) == valueExists(value) /\ ~InstanceOfArray(value)

(***************************************************************************)
(* C12: a present value of the wrong shape is rejected with the shape      *)
(* error of the operation and no hook is invoked: processItem, also when   *)
(* reached through processValue on a composite type, fails with            *)
(* INVALID_ITEM for every item that is neither absent nor a record         *)
(* (scalars and lists); processValueList fails with INVALID_VALUE_LIST for *)
(* every value that is neither absent nor a list (scalars and records).    *)
(* Stated for processItem on the types that have a fields map, so that a   *)
(* failure to resolve the type or its fields is not taken for the shape    *)
(* error.                                                                  *)
(***************************************************************************)
C12_WrongShapeRejected ==
  \A c \in Calls :
    Done(c) =>
      /\ /\ \/ input[c].entry = "processItem"
            \/ input[c].entry = "processValue" /\ IsComposite(input[c].typeName)
         /\ HasFields(input[c].typeName)
         /\ WrongShapeForItem(input[c].value)
         => /\ ThrewMessage(ret[c], ERROR_MESSAGES.INVALID_ITEM)
            /\ hookLog[c] = <<>>
      /\ /\ input[c].entry = "processValueList"
         /\ WrongShapeForList(input[c].value)
         => /\ ThrewMessage(ret[c], ERROR_MESSAGES.INVALID_VALUE_LIST)
            /\ hookLog[c] = <<>>

(***************************************************************************)
(* The walk of one call.                                                   *)
(***************************************************************************)
HookFns == {"processPrimitiveValue", "processRemoteValue"}

LoopFns == {"processItem", "processValueList"}

\* The hook invocations of call c that are in progress.
HooksInProgress(c) == {n \in 1..Len(stack[c]) : stack[c][n].fn \in HookFns}

\* The siblings a pending loop walks through: the declared fields of the type
\* in the order of the field list, or the elements of the list by index.
NumSiblings(f) ==
  IF f.fn = "processItem" THEN Len(f.fieldList) ELSE Len(f.value.e)

\* In this step the loop at position n of the stack of call c begins the
\* processing of a sibling: the method that processes it is entered right
\* above the loop.
BeginsSibling(c, n) ==
  /\ Len(stack'[c]) = n + 1
  /\ stack'[c][n].fn \in LoopFns /\ stack'[c][n].pc = "await"
  /\ stack'[c][n + 1].pc = "start"
  /\ stack'[c] # stack[c]

\* The method entered for sibling k of the loop f: processFieldValue with the
\* value of the k-th declared field, processValue with the k-th element.
SiblingFrame(f, k) ==
  IF f.fn = "processItem"
  THEN Frame("processFieldValue", Get(f.value, Str(f.fieldList[k + 1])),
             f.typeName, Str(f.fieldList[k + 1]))
  ELSE Frame("processValue", f.value.e[k + 1], f.typeName, Undefined)

\* A sibling is begun in order and after the one before it has finished: the
\* first when the loop is entered, the next one when the method entered for
\* the one before it, with everything that method awaited, has settled and
\* has handed its completion to the loop.
SiblingInTurn(c, n) ==
  LET new == stack'[c][n]
  IN  /\ Len(stack[c]) = n
      /\ stack[c][n].fn = new.fn
      /\ \/ stack[c][n].pc = "start" /\ new.i = 0
         \/ /\ stack[c][n].pc = "await"
            /\ new.i = stack[c][n].i + 1
            /\ ret[c] # None
      /\ new.i < NumSiblings(new)
      /\ stack'[c][n + 1] = SiblingFrame(new, new.i)

(***************************************************************************)
(* C13: within one top-level call the walk is depth-first and strictly     *)
(* sequential.  At most one hook invocation of the call is in progress at  *)
(* any time, and nothing of the call runs while it is; the fields of a     *)
(* record are processed in the order of the declared field list and the    *)
(* elements of a list by ascending index; and a sibling is begun only when *)
(* the processing of the sibling before it, the wait for its hook          *)
(* included, has finished.                                                 *)
(***************************************************************************)
C13_SequentialWalk ==
  /\ [](\A c \in Calls :
          /\ Cardinality(HooksInProgress(c)) <= 1
          /\ \A n \in HooksInProgress(c) : n = Len(stack[c]))
  /\ [][\A c \in Calls : \A n \in 1..Len(stack'[c]) :
          BeginsSibling(c, n) => SiblingInTurn(c, n)]_vars

\* A hook is in progress for the second sibling of a loop, after a hook has
\* run for the first.
C13_Witness ==
  \E c \in Calls :
    /\ HooksInProgress(c) # {}
    /\ Len(hookLog[c]) > 1
    /\ \E n \in 1..Len(stack[c]) :
         stack[c][n].fn \in LoopFns /\ stack[c][n].pc = "await" /\ stack[c][n].i = 1

\* In this step the pending loop on top of the stack of call c is left: the
\* method settles, with its output or with its aggregate error.
LeavesLoop(c) ==
  /\ Running(c)
  /\ Top(c).fn \in LoopFns /\ Top(c).pc = "await"
  /\ Len(stack'[c]) = Len(stack[c]) - 1

\* A hook was invoked during call c for the value at the path.
InvokedAt(c, path) == \E n \in 1..Len(hookLog[c]) : hookLog[c][n].path = path

IsLeaf(typeName) == IsPrimitive(typeName) \/ IsRemote(typeName)

\* Every element of the root list of a leaf type has had its hook invoked, with
\* the element, in the order of the list.
ElementHooksInvoked(c) ==
  /\ DoneWith(c, "processValueList")
  /\ InstanceOfArray(input[c].value)
  /\ IsLeaf(input[c].typeName)
  => /\ Len(hookLog[c]) = Len(input[c].value.e)
     /\ \A i \in Indices(input[c].value) :
          /\ hookLog[c][i + 1].path = <<Index(i)>>
          /\ hookLog[c][i + 1].value = input[c].value.e[i + 1]

\* Every declared field of a leaf type of the root record has had its hook
\* invoked: for the field when it is single-valued, for every element of its
\* list when it is list-valued.
LeafFieldHooksInvoked(c) ==
  /\ DoneWith(c, "processItem")
  /\ RecordShaped(input[c].value)
  /\ HasFields(input[c].typeName)
  => \A fieldName \in DescribedFields(input[c].typeName) :
       IsLeaf(FieldType(input[c].typeName, fieldName)) =>
         LET value == Get(input[c].value, Str(fieldName))
         IN  IF ~IsMultiple(input[c].typeName, fieldName)
             THEN InvokedAt(c, <<Str(fieldName)>>)
             ELSE InstanceOfArray(value) =>
                    \A i \in Indices(value) : InvokedAt(c, <<Str(fieldName), Index(i)>>)

(***************************************************************************)
(* C14: a failure of one field or of one list element never aborts its     *)
(* siblings.  A loop of processItem or processValueList is left, and its   *)
(* aggregate error raised, only when the last declared field or the last   *)
(* element has been processed, however many of the earlier ones failed;    *)
(* and at the end of a call the hook has been invoked for every element of *)
(* a list of a leaf type and for every declared field of a leaf type.      *)
(***************************************************************************)
C14_SiblingsNeverAborted ==
  /\ [](\A c \in Calls : ElementHooksInvoked(c) /\ LeafFieldHooksInvoked(c))
  /\ [][\A c \in Calls :
          LeavesLoop(c) => Top(c).i + 1 = NumSiblings(Top(c))]_vars

\* processItem has raised an ITEM_ERROR in which the first declared field has
\* failed, after the hook was invoked for a later field.
C14_Witness ==
  \E c \in Calls :
    /\ DoneWith(c, "processItem")
    /\ RecordShaped(input[c].value)
    /\ ThrewMessage(ret[c], ERROR_MESSAGES.ITEM_ERROR)
    /\ HasFields(input[c].typeName)
    /\ getFieldList(typeMap, input[c].typeName).v[1] \in DOMAIN ret[c].v.sub
    /\ \E n \in 2..Len(getFieldList(typeMap, input[c].typeName).v) :
         InvokedAt(c, <<Str(getFieldList(typeMap, input[c].typeName).v[n])>>)

\* The type is an entry of the type map that is a type definition.
ExistingType(typeName) == HasEntry(typeName) /\ Resolves(typeName)

\* The definition of an existing type has a fields map of its own.
HasFieldsMap(typeName) ==
  /\ HasOwnObject(typeMap, typeName)
  /\ HasOwnObject(typeMap.f[PropertyKey(typeName)], Str("fields"))

\* The field names the fields map of the type declares, in its order.
FieldsMapKeys(typeName) == typeMap.f[PropertyKey(typeName)].f.fields.keys

(***************************************************************************)
(* C15: processItem with a record-shaped item and an existing type whose   *)
(* definition has no fields map (a composite type without `fields`, or a   *)
(* primitive or remote type) fails with MISSING_FIELDS_FOR_TYPE itself,    *)
(* not wrapped in an ITEM_ERROR, before any field is visited and without   *)
(* invoking any hook; getFieldList fails with MISSING_FIELDS_FOR_TYPE for  *)
(* exactly those types and returns the declared field names for the        *)
(* others.                                                                 *)
(***************************************************************************)
C15_MissingFieldsForType ==
  \A c \in Calls :
    /\ /\ input[c].entry = "processItem"
       /\ RecordShaped(input[c].value)
       /\ ExistingType(input[c].typeName)
       /\ ~HasFieldsMap(input[c].typeName)
       => /\ hookLog[c] = <<>>
          /\ Running(c) => Len(stack[c]) = 1 /\ Top(c).pc = "start"
          /\ Done(c) =>
               /\ ret[c] = Throw(TypeError(ERROR_MESSAGES.MISSING_FIELDS_FOR_TYPE))
               /\ failLog[c] =
                    {<<<<>>, TypeError(ERROR_MESSAGES.MISSING_FIELDS_FOR_TYPE)>>}
    /\ DoneWith(c, "getFieldList") /\ ExistingType(input[c].typeName)
       => IF HasFieldsMap(input[c].typeName)
          THEN ret[c] = Return(FieldsMapKeys(input[c].typeName))
          ELSE ret[c] = Throw(TypeError(ERROR_MESSAGES.MISSING_FIELDS_FOR_TYPE))

\* processItem has settled for a record with fields and a primitive type.
C15_Witness ==
  \E c \in Calls :
    /\ DoneWith(c, "processItem")
    /\ RecordShaped(input[c].value)
    /\ OwnKeys(input[c].value) # {}
    /\ ExistingType(input[c].typeName)
    /\ IsPrimitive(input[c].typeName)

\* The declared fields of the type whose descriptor names a type that reaches
\* nothing through the type map.
GhostFields(typeName) ==
  {fieldName \in DescribedFields(typeName) :
     NamesNothing(FieldType(typeName, fieldName))}

\* processItem has settled for a record-shaped item of a type with fields.
ItemTraversed(c) ==
  /\ DoneWith(c, "processItem")
  /\ RecordShaped(input[c].value)
  /\ HasFields(input[c].typeName)

\* The field is a key of the ITEM_ERROR call c has raised.
ErrorKey(c, fieldName) ==
  ThrewMessage(ret[c], ERROR_MESSAGES.ITEM_ERROR) /\ fieldName \in DOMAIN ret[c].v.sub

\* Nothing is raised before a call is made.
NoErrorAtConstruction == \A c \in Calls : Idle(c) => ret[c] = None /\ failLog[c] = {}

(***************************************************************************)
(* C16 (as stated): a field descriptor whose `type` names a type absent    *)
(* from the type map is detected on every traversal of a record of the     *)
(* owning type: whatever the value of the field and whatever its           *)
(* `multiple` flag, processItem raises an ITEM_ERROR that has the field    *)
(* name as a key; nothing is raised at construction time.                  *)
(***************************************************************************)
C16_AbsentFieldTypeAlwaysDetected ==
  /\ NoErrorAtConstruction
  /\ \A c \in Calls :
       ItemTraversed(c) =>
         \A fieldName \in GhostFields(input[c].typeName) : ErrorKey(c, fieldName)

(***************************************************************************)
(* C16 (amended): the absent type is detected when a traversal looks it    *)
(* up.  A field that is not `multiple` is a key of the ITEM_ERROR whatever *)
(* its value, with a NON_EXISTENT_TYPE error.  A `multiple` field is a key *)
(* exactly when its value is present and not an empty list: with a         *)
(* VALUE_LIST_ERROR that maps every index to NON_EXISTENT_TYPE for a       *)
(* non-empty list, with INVALID_VALUE_LIST for a value that is no list.    *)
(* Nothing is raised at construction time.                                 *)
(***************************************************************************)
C16_AbsentFieldTypeDetectedOnLookup ==
  /\ NoErrorAtConstruction
  /\ \A c \in Calls :
       ItemTraversed(c) =>
         \A fieldName \in GhostFields(input[c].typeName) :
           LET value == Get(input[c].value, Str(fieldName))
               nonExistent == TypeError(ERROR_MESSAGES.NON_EXISTENT_TYPE)
           IN  IF ~IsMultiple(input[c].typeName, fieldName)
               THEN ErrorKey(c, fieldName) /\ ret[c].v.sub[fieldName] = nonExistent
               ELSE IF ~valueExists(value) \/ value = Arr(<<>>)
               THEN ~ErrorKey(c, fieldName)
               ELSE IF InstanceOfArray(value)
               THEN /\ ErrorKey(c, fieldName)
                    /\ ret[c].v.sub[fieldName] =
                         AggregateError(ERROR_MESSAGES.VALUE_LIST_ERROR,
                                        [i \in Indices(value) |-> nonExistent])
               ELSE /\ ErrorKey(c, fieldName)
                    /\ ret[c].v.sub[fieldName] =
                         TypeError(ERROR_MESSAGES.INVALID_VALUE_LIST)

\* processItem has settled for a record that holds an empty list under a
\* `multiple` field of an absent type and a record under a single-valued one.
C16_Witness ==
  \E c \in Calls :
    /\ ItemTraversed(c)
    /\ \E fieldName \in GhostFields(input[c].typeName) :
         /\ IsMultiple(input[c].typeName, fieldName)
         /\ Get(input[c].value, Str(fieldName)) = Arr(<<>>)
    /\ \E fieldName \in GhostFields(input[c].typeName) :
         /\ ~IsMultiple(input[c].typeName, fieldName)
         /\ RecordShaped(Get(input[c].value, Str(fieldName)))

\* The loops of processValueList that are pending in call c.
PendingListLoops(c) ==
  {n \in 1..Len(stack[c]) :
     stack[c][n].fn = "processValueList" /\ stack[c][n].pc = "await"}

\* The completions of the elements the loop f has processed so far, by index.
ProcessedSoFar(f) ==
  [n \in 1..f.i |-> processValue(typeMap, hooks, f.value.e[n], f.typeName)]

\* The results of the elements that succeeded so far, in the order of the list.
ResultsSoFar(f) ==
  LET succeeded == SelectSeq(ProcessedSoFar(f), Returned)
  IN  [n \in 1..Len(succeeded) |-> succeeded[n].v]

(***************************************************************************)
(* C17 (as stated): in processValueList, when an element fails, an absence *)
(* marker is put in the slot of the element, so that the output list built *)
(* has a slot per element processed, the result of each element that       *)
(* succeeded sits at the index of the element, and each failed index holds *)
(* the absence marker.                                                     *)
(***************************************************************************)
C17_FailedSlotsHoldAbsence ==
  \A c \in Calls : \A n \in PendingListLoops(c) :
    LET f == stack[c][n]
    IN  /\ Len(f.out.e) = f.i
        /\ \A j \in 0..(f.i - 1) :
             IF j \in DOMAIN f.errs
             THEN ~valueExists(f.out.e[j + 1])
             ELSE f.out.e[j + 1] = ProcessedSoFar(f)[j + 1].v

(***************************************************************************)
(* C17 (amended): in processValueList, when an element fails, nothing is   *)
(* put in the output list.  The list built holds the results of the        *)
(* elements that succeeded so far, in the order of the input: it is        *)
(* shorter than the number of elements processed by the number of          *)
(* failures, and the error map has the failed indices.  The list is        *)
(* returned only when no element failed: then it has the length of the     *)
(* input and each result sits at the index of its element.                 *)
(***************************************************************************)
C17_OutputListHoldsSuccessesOnly ==
  \A c \in Calls :
    /\ \A n \in PendingListLoops(c) :
         LET f == stack[c][n]
         IN  /\ f.out.e = ResultsSoFar(f)
             /\ Len(f.out.e) + Cardinality(DOMAIN f.errs) = f.i
             /\ DOMAIN f.errs = {j \in 0..(f.i - 1) : Threw(ProcessedSoFar(f)[j + 1])}
    /\ DoneWith(c, "processValueList") /\ InstanceOfArray(input[c].value)
       /\ Returned(ret[c])
       => /\ FailingIndices(input[c].value, input[c].typeName) = {}
          /\ InstanceOfArray(ret[c].v)
          /\ Len(ret[c].v.e) = Len(input[c].value.e)

\* A loop of processValueList is pending in which an element has failed and a
\* later element has succeeded.
C17_Witness ==
  \E c \in Calls : \E n \in PendingListLoops(c) :
    \E j \in DOMAIN stack[c][n].errs :
      \E k \in (j + 1)..(stack[c][n].i - 1) : Returned(ProcessedSoFar(stack[c][n])[k + 1])

\* The loops of processItem that are pending in call c.
PendingItemLoops(c) ==
  {n \in 1..Len(stack[c]) :
     stack[c][n].fn = "processItem" /\ stack[c][n].pc = "await"}

\* The declared fields the loop f has visited so far.
VisitedSoFar(f) == {f.fieldList[n] : n \in 1..f.i}

(***************************************************************************)
(* C18: at every point of the loop of processItem the key set of the       *)
(* output record and the key set of the error map are disjoint and their   *)
(* union is the set of the declared fields visited so far: a field that    *)
(* succeeded is a key of the output, with its result, and not of the error *)
(* map; a field that failed is a key of the error map, with its error, and *)
(* is unset in the output.  After the loop the same holds with all the     *)
(* declared fields: the record returned has them all as keys, the          *)
(* ITEM_ERROR raised has the failed ones.                                  *)
(***************************************************************************)
C18_OutputAndErrorsPartitionVisited ==
  \A c \in Calls :
    /\ \A n \in PendingItemLoops(c) :
         LET f == stack[c][n]
         IN  /\ OwnKeys(f.out) \cap DOMAIN f.errs = {}
             /\ OwnKeys(f.out) \cup DOMAIN f.errs = VisitedSoFar(f)
             /\ \A fieldName \in VisitedSoFar(f) :
                  LET outcome == FieldOutcome(f.value, f.typeName, fieldName)
                  IN  IF Returned(outcome)
                      THEN /\ fieldName \in OwnKeys(f.out)
                           /\ f.out.f[fieldName] = outcome.v
                      ELSE /\ fieldName \in DOMAIN f.errs
                           /\ f.errs[fieldName] = outcome.v
    /\ ItemTraversed(c) =>
         IF Returned(ret[c])
         THEN /\ OwnKeys(ret[c].v) = DeclaredFields(input[c].typeName)
              /\ FailingFields(input[c].value, input[c].typeName) = {}
         ELSE /\ ThrewMessage(ret[c], ERROR_MESSAGES.ITEM_ERROR)
              /\ DOMAIN ret[c].v.sub =
                   FailingFields(input[c].value, input[c].typeName)

\* A loop of processItem is pending in which a field has failed and another
\* has succeeded.
C18_Witness ==
  \E c \in Calls : \E n \in PendingItemLoops(c) :
    /\ DOMAIN stack[c][n].errs # {}
    /\ OwnKeys(stack[c][n].out) # {}

(***************************************************************************)
(* The nesting of a value, and its parts.                                  *)
(***************************************************************************)
RECURSIVE NestingDepth(_)
RECURSIVE ValueAt(_, _)

Max(S) == CHOOSE x \in S : \A y \in S : y <= x

\* A scalar or an absent value has depth 0, a record or a list one more than
\* the deepest of its parts.
NestingDepth(value) ==
  CASE value.k = "object" ->
         1 + Max({0} \cup {NestingDepth(value.f[key]) : key \in DOMAIN value.f})
    [] value.k = "array" ->
         1 + Max({0} \cup {NestingDepth(value.e[n]) : n \in 1..Len(value.e)})
    [] OTHER -> 0

\* The part of the value at a path of field names and indices.
ValueAt(value, path) ==
  IF path = <<>> THEN value
  ELSE ValueAt(IF path[1].k = "index" THEN value.e[path[1].i + 1]
               ELSE Get(value, path[1]),
               Tail(path))

\* The loops that are pending in call c: the levels the recursion is at.
PendingLoops(c) == PendingItemLoops(c) \cup PendingListLoops(c)

\* The recursion of call c descends into the parts of its input only, and
\* into the record-shaped and list-shaped ones only.
DescendsIntoInput(c) ==
  /\ \A n \in 1..Len(stack[c]) :
       stack[c][n].value = ValueAt(input[c].value, PathOf(SubSeq(stack[c], 1, n - 1)))
  /\ \A n \in PendingItemLoops(c) : InstanceOfObject(stack[c][n].value)
  /\ \A n \in PendingListLoops(c) : InstanceOfArray(stack[c][n].value)

HookCallsFor(c, fieldName) ==
  {n \in 1..Len(hookLog[c]) : hookLog[c][n].path = <<Str(fieldName)>>}

HookCallsUnder(c, fieldName) ==
  {n \in 1..Len(hookLog[c]) :
     hookLog[c][n].path # <<>> /\ hookLog[c][n].path[1] = Str(fieldName)}

\* The hook of a leaf type and its completion for a value.
HookOf(typeName) ==
  IF IsPrimitive(typeName) THEN "processPrimitiveValue" ELSE "processRemoteValue"

HookOutcome(value, typeName) ==
  IF IsPrimitive(typeName) THEN processPrimitiveValue(hooks, value, typeName)
  ELSE processRemoteValue(hooks, value, typeName)

(***************************************************************************)
(* C20: absence passthrough does not apply to single-valued leaf fields.   *)
(* For every declared field without `multiple` whose type is primitive or  *)
(* remote, processItem on a record-shaped item invokes the hook of the     *)
(* type exactly once for the field, with the value of the field also when  *)
(* that value is missing or null, and stores the result of the hook under  *)
(* the field name in the output.  For an absent value the hook is skipped  *)
(* only when the field is list-valued or its type is composite.            *)
(***************************************************************************)
C20_LeafFieldsGetAbsentValues ==
  \A c \in Calls :
    ItemTraversed(c) =>
      \A fieldName \in DescribedFields(input[c].typeName) :
        LET typeName == input[c].typeName
            fieldType == FieldType(typeName, fieldName)
            value == Get(input[c].value, Str(fieldName))
        IN  /\ ~IsMultiple(typeName, fieldName) /\ IsLeaf(fieldType)
               => /\ Cardinality(HookCallsFor(c, fieldName)) = 1
                  /\ Cardinality(HookCallsUnder(c, fieldName)) = 1
                  /\ \A n \in HookCallsFor(c, fieldName) :
                       /\ hookLog[c][n].hook = HookOf(fieldType)
                       /\ hookLog[c][n].value = value
                       /\ hookLog[c][n].typeName = fieldType
                  /\ Returned(ret[c]) /\ Returned(HookOutcome(value, fieldType))
                       => ret[c].v.f[fieldName] = HookOutcome(value, fieldType).v
                  /\ Threw(HookOutcome(value, fieldType))
                       => ErrorKey(c, fieldName)
            /\ ~valueExists(value) /\ Resolves(fieldType)
               => (HookCallsUnder(c, fieldName) = {}
                     <=> IsMultiple(typeName, fieldName) \/ IsComposite(fieldType))

\* processItem has returned for a record with null under a single-valued
\* field of a leaf type, undefined under another, and null under a list-valued
\* one.
C20_Witness ==
  \E c \in Calls :
    /\ ItemTraversed(c)
    /\ Returned(ret[c])
    /\ \E a, b, l \in DescribedFields(input[c].typeName) :
         /\ ~IsMultiple(input[c].typeName, a) /\ IsLeaf(FieldType(input[c].typeName, a))
         /\ Get(input[c].value, Str(a)) = Null
         /\ ~IsMultiple(input[c].typeName, b) /\ IsLeaf(FieldType(input[c].typeName, b))
         /\ Get(input[c].value, Str(b)) = Undefined
         /\ IsMultiple(input[c].typeName, l) /\ IsLeaf(FieldType(input[c].typeName, l))
         /\ Get(input[c].value, Str(l)) = Null

====
